---------------------------- MODULE Spec2Model ----------------------------
(***************************************************************************)
(* mdxlate: Translator (src/src/mdxlate/translator.py).                    *)
(*                                                                         *)
(* The state is one Translator instance, the source tree, the output tree, *)
(* the persisted hash file and the asyncio tasks of the run in progress.   *)
(* One action per step the event loop can take: translate_directory up to  *)
(* its gather, every process_file up to its gather, every step of a        *)
(* _write_one task between two awaits, cache.save(), clean_up_unused_files.*)
(* mdxlate.cache is not among the source files: TranslationCache is        *)
(* modelled from its description (Cache Store).                            *)
(***************************************************************************)
EXTENDS Integers, Sequences, FiniteSets, TLC

\* ------------------------------------------------------------------ bounds

\* Runs of translate_directory in one behaviour.
MaxRuns == 2
\* Distinct contents a source document can have (0 stands for "no file").
MaxContent == 2
\* Largest max_concurrency a Translator is built with.
MaxConcurrency == 2
\* Write tasks of one run that meet a failing backend call or file write.
MaxFaulty == 1

\* ------------------------------------------------------- program constants

\* stop_after_attempt(6) of the tenacity decorator on translate_text.
StopAfterAttempt == 6

\* base_language of the Translator.
base_language == "en"

\* The language lists a Translator is built with (a list: a language may
\* be given twice; the base language may be left out).
LanguageLists == {<<"en", "de">>, <<"de", "de">>}

Langs == {"en", "de"}

\* model and translation_instruction of the Translator.
model == "test-model"

\* client of the Translator: two backends that answer differently.
Clients == {"v1", "v2"}

translation_instruction == "SYSTEM PROMPT"

\* Source documents, as the parts of their path relative to the source root.
Docs == {<<"a.md">>, <<"sub", "deep", "b.md">>}

\* How the output_dir argument names the output root: "resolved" is an
\* absolute path free of symbolic links, "unresolved" a relative path or one
\* through a symbolic link (resolve() gives another string for it).
OutputForms == {"resolved", "unresolved"}

\* How source root and output root lie to each other.
RootRelations == {"disjoint", "same", "output_in_source", "source_in_output"}

\* ------------------------------------------------------------------- paths

\* Path.resolve(): the absolute path with symbolic links followed.
Resolve(p) == [root |-> "resolved", parts |-> p.parts]

\* Path.as_posix(): the path's string, its segments joined by "/".
AsPosix(p) == <<p.root>> \o p.parts

\* output_dir / lang / relative_path
OutPath(form, lang, rel) == [root |-> form, parts |-> <<lang>> \o rel]

\* The directories between a language directory and the file rel, and
\* the language directory itself (<<>>).
ParentDirs(rel) == {SubSeq(rel, 1, n) : n \in 0..(Len(rel) - 1)}

AllDirs == UNION {ParentDirs(d) : d \in Docs}

\* The depth of the deepest directory below a language directory.
MaxDepth == CHOOSE n \in 0..4 : /\ \A p \in AllDirs : Len(p) <= n
                                /\ \E p \in AllDirs : Len(p) = n

\* ---------------------------------------------------------------- contents

NoFile == [kind |-> "none", lang |-> "", ver |-> "", body |-> 0]

\* file_bytes.decode(): documents are valid UTF-8, which write_text(...,
\* encoding="utf-8") maps back to the same bytes.
Decode(file_bytes) == [kind |-> "text", lang |-> "", ver |-> "", body |-> file_bytes]

\* What the backend behind client cl returns for text and target language.
Translation(text, lang, cl) ==
    [kind |-> "translated", lang |-> lang, ver |-> cl, body |-> text.body]

\* -------------------------------------------------------- TranslationCache

NoKey == <<>>

\* cache.calc_key
CalcKey(rel, lang, file_bytes, prompt, mdl) == <<rel, lang, file_bytes, prompt, mdl>>

\* cache.is_up_to_date
IsUpToDate(c, rel, lang, key) == c[<<lang, rel>>] = key

\* cache.mark
Mark(c, rel, lang, key) == [c EXCEPT ![<<lang, rel>>] = key]

EmptyCache == [k \in Langs \X Docs |-> NoKey]

\* ------------------------------------------------------------------- state

VARIABLES
    languages,          \* self.languages
    client,             \* self.client
    force_translation,  \* self.force_translation
    max_concurrency,    \* the semaphore's initial value
    semaphore,          \* free slots of self.semaphore
    used_output_paths,  \* self.used_output_paths
    roots,              \* how source_dir and output_dir lie to each other
    src,                \* source tree: document -> content (0: no file)
    out_files,          \* output tree: <<lang, document>> -> content
    out_dirs,           \* output tree: the directories <<lang, dir>>
    state_file,         \* <cache root>/.mdxlate.hashes.json
    cache,              \* the TranslationCache of the run
    pc,                 \* translate_directory's position
    output_dir,         \* form of the output_dir argument of the run
    file_tasks,         \* document -> state of its process_file task
    write_tasks,        \* <<document, i>> -> state of its _write_one task
    attempts,           \* <<document, i>> -> attempt number of translate_text
    runs,               \* runs started
    faulty,             \* the tasks of the run that have met a failure
    prev                \* the run that ended before the current one

vars == <<languages, client, force_translation, max_concurrency,
          semaphore, used_output_paths, roots, src, out_files, out_dirs,
          state_file, cache, pc, output_dir, file_tasks, write_tasks,
          attempts, runs, faulty, prev>>

\* What no action but Translator.__init__ sets.
config == <<languages, max_concurrency, roots>>

\* What a run leaves alone: the Translator's parameters and the source tree.
inputs == <<client, force_translation, src>>

\* The length of the longest language list.
MaxLangs == CHOOSE n \in 1..4 : /\ \A l \in LanguageLists : Len(l) <= n
                                /\ \E l \in LanguageLists : Len(l) = n

\* The _write_one tasks a run can create: one per document and index of
\* self.languages.
Slots == Docs \X (1..MaxLangs)

NoTasks == [s \in Slots |-> "none"]

NoAttempts == [s \in Slots |-> 0]

NoFileTasks == [d \in Docs |-> "none"]

NoRun == [outcome |-> "none", src |-> [d \in Docs |-> 0], force |-> FALSE,
          failed |-> {}]

\* A task that is scheduled and has not ended.
Active(st) == st \in {"waiting", "inflight"}

Quiescent == \A s \in Slots : ~Active(write_tasks[s])

Between == pc \in {"idle", "done", "failed"} /\ Quiescent

\* The run that has just ended, if one has: its inputs and the tasks that
\* raised.
Ended ==
    IF pc = "idle" THEN prev
    ELSE [outcome |-> IF pc = "done" THEN "ok" ELSE "failed",
          src |-> src, force |-> force_translation,
          failed |-> {s \in Slots : write_tasks[s] = "failed"}]

TypeOK ==
    /\ languages \in LanguageLists
    /\ client \in Clients
    /\ force_translation \in BOOLEAN
    /\ max_concurrency \in 1..MaxConcurrency
    /\ semaphore \in 0..max_concurrency
    /\ roots \in RootRelations
    /\ src \in [Docs -> 0..MaxContent]
    /\ out_dirs \subseteq Langs \X AllDirs
    /\ pc \in {"idle", "running", "saved", "done", "failed"}
    /\ output_dir \in OutputForms
    /\ file_tasks \in [Docs -> {"none", "created", "processed"}]
    /\ write_tasks \in [Slots -> {"none", "skipped", "waiting", "inflight",
                                  "written", "failed", "cancelled"}]
    /\ attempts \in [Slots -> 0..StopAfterAttempt]
    /\ runs \in 0..MaxRuns
    /\ faulty \subseteq Slots /\ Cardinality(faulty) <= MaxFaulty
    /\ prev.outcome \in {"none", "ok", "failed"}

\* ------------------------------------------------------------- Translator

\* Translator.__init__ (force_translation at its default), beside a source
\* tree of two documents and no output tree.
Init ==
    /\ languages \in LanguageLists
    /\ client = "v1"
    /\ force_translation = FALSE
    /\ max_concurrency \in 1..MaxConcurrency
    /\ semaphore = max_concurrency
    /\ used_output_paths = {}
    /\ roots \in RootRelations
    /\ src = [d \in Docs |-> 1]
    /\ out_files = [k \in Langs \X Docs |-> NoFile]
    /\ out_dirs = {}
    /\ state_file = EmptyCache
    /\ cache = EmptyCache
    /\ pc = "idle"
    /\ output_dir = "resolved"
    /\ file_tasks = NoFileTasks
    /\ write_tasks = NoTasks
    /\ attempts = NoAttempts
    /\ runs = 0
    /\ faulty = {}
    /\ prev = NoRun

\* The tasks and the TranslationCache of a run that has ended are gone.
Forget ==
    /\ pc' = "idle"
    /\ prev' = Ended
    /\ cache' = EmptyCache
    /\ file_tasks' = NoFileTasks
    /\ write_tasks' = NoTasks
    /\ attempts' = NoAttempts
    /\ faulty' = {}

\* A new Translator for the next run, with the languages and max_concurrency
\* of the first.
NewTranslator(cl, force) ==
    /\ Between
    /\ 0 < runs /\ runs < MaxRuns
    /\ client' = cl
    /\ force_translation' = force
    /\ semaphore' = max_concurrency
    /\ used_output_paths' = {}
    /\ Forget
    /\ UNCHANGED <<config, src, out_files, out_dirs, state_file, output_dir, runs>>

\* ------------------------------------------------------------ environment

\* A source document is written, created or restored between two runs.
WriteDocument(d, c) ==
    /\ Between
    /\ 0 < runs /\ runs < MaxRuns
    /\ src[d] # c
    /\ src' = [src EXCEPT ![d] = c]
    /\ Forget
    /\ UNCHANGED <<config, client, force_translation, semaphore,
                   used_output_paths, out_files, out_dirs, state_file,
                   output_dir, runs>>

\* A source document is deleted between two runs.
DeleteDocument(d) ==
    /\ Between
    /\ 0 < runs /\ runs < MaxRuns
    /\ src[d] # 0
    /\ src' = [src EXCEPT ![d] = 0]
    /\ Forget
    /\ UNCHANGED <<config, client, force_translation, semaphore,
                   used_output_paths, out_files, out_dirs, state_file,
                   output_dir, runs>>

\* ------------------------------------------------------ translate_directory

\* translate_directory up to its gather: cache.load() and one process_file
\* task per document of the source tree. The two arguments are not compared.
\* With overlapping roots the artifacts of a run are source documents of the
\* next one: such a deployment is followed through its first run only.
StartRun(form) ==
    /\ Between
    /\ runs < MaxRuns
    /\ roots = "disjoint" \/ runs = 0
    /\ runs' = runs + 1
    /\ prev' = Ended
    /\ output_dir' = form
    /\ cache' = state_file
    /\ file_tasks' = [d \in Docs |-> IF src[d] # 0 THEN "created" ELSE "none"]
    /\ write_tasks' = NoTasks
    /\ attempts' = NoAttempts
    /\ faulty' = {}
    /\ pc' = "running"
    /\ UNCHANGED <<config, inputs, semaphore, used_output_paths, out_files,
                   out_dirs, state_file>>

\* The string _mark_used records for an artifact.
UsedPath(form, lang, rel) == AsPosix(Resolve(OutPath(form, lang, rel)))

\* _mark_used
MarkUsed(used, form, rel) ==
    used \cup {UsedPath(form, languages[i], rel) : i \in 1..Len(languages)}

\* SkipPair with the force flag left out.
SkipPairIgnoringForce(c, rel, lang, key) == IsUpToDate(c, rel, lang, key)

\* SkipPair that compares nothing: no language is ever passed over.
SkipPairNever(c, rel, lang, key) == FALSE

\* The condition under which process_file passes a language over.
SkipPair(c, rel, lang, key) ==
    ~force_translation /\ IsUpToDate(c, rel, lang, key)

\* Scheduled without the call of cache.mark.
ScheduledUnmarked(c, rel, lang, key) == c

\* The cache after process_file has created the task of a language.
Scheduled(c, rel, lang, key) == Mark(c, rel, lang, key)

\* The loop of process_file over self.languages from index i on, with cache c
\* and task states ts: the cache and the tasks after it.
RECURSIVE ProcessLangs(_, _, _, _)
ProcessLangs(i, rel, c, ts) ==
    IF i > Len(languages) THEN [cache |-> c, tasks |-> ts]
    ELSE LET lang == languages[i]
             key == CalcKey(rel, lang, src[rel], translation_instruction, model)
         IN IF SkipPair(c, rel, lang, key)
            THEN ProcessLangs(i + 1, rel, c,
                              [ts EXCEPT ![<<rel, i>>] = "skipped"])
            ELSE ProcessLangs(i + 1, rel, Scheduled(c, rel, lang, key),
                              [ts EXCEPT ![<<rel, i>>] = "waiting"])

\* process_file up to its gather.
ProcessFile(d) ==
    /\ pc = "running"
    /\ file_tasks[d] = "created"
    /\ used_output_paths' = MarkUsed(used_output_paths, output_dir, d)
    /\ LET r == ProcessLangs(1, d, cache, write_tasks)
       IN /\ cache' = r.cache
          /\ write_tasks' = r.tasks
    /\ file_tasks' = [file_tasks EXCEPT ![d] = "processed"]
    /\ UNCHANGED <<config, inputs, semaphore, out_files, out_dirs, state_file,
                   pc, output_dir, attempts, runs, faulty, prev>>

\* Every process_file task has run up to its gather: they are created before
\* any _write_one task, and the loop starts its tasks in that order.
AllProcessed == \A d \in Docs : file_tasks[d] # "created"

\* The environment may fail task s: the backend and the file system fail
\* at most MaxFaulty tasks of a run.
MayFail(s) == s \in faulty \/ Cardinality(faulty) < MaxFaulty

\* SlotFree of a task that does not wait for the semaphore.
SlotFreeAlways == TRUE

\* SlotFree of a pool that is one slot short: the last slot is never given out.
SlotFreeButLast == semaphore > 1

\* async with self.semaphore: a slot is free.
SlotFree == semaphore > 0

\* IsBase of a comparison that never holds.
IsBaseNever(lang) == FALSE

\* lang == self.base_language
IsBase(lang) == lang = base_language

\* out_file.write_text(translated)
WriteArtifact(files, lang, rel, content) == [files EXCEPT ![<<lang, rel>>] = content]

\* out_file.parent.mkdir(parents=True, exist_ok=True)
MakeDirs(dirs, lang, rel) == dirs \cup {<<lang, p>> : p \in ParentDirs(rel)}

\* _write_one for the base language: no await between taking the slot and
\* releasing it.
WriteBase(d, i) ==
    /\ pc = "running" /\ AllProcessed
    /\ write_tasks[<<d, i>>] = "waiting"
    /\ IsBase(languages[i])
    /\ SlotFree
    /\ \/ /\ out_files' = WriteArtifact(out_files, languages[i], d, Decode(src[d]))
          /\ out_dirs' = MakeDirs(out_dirs, languages[i], d)
          /\ write_tasks' = [write_tasks EXCEPT ![<<d, i>>] = "written"]
          /\ UNCHANGED faulty
       \/ \* mkdir raises OSError
          /\ MayFail(<<d, i>>)
          /\ faulty' = faulty \cup {<<d, i>>}
          /\ write_tasks' = [write_tasks EXCEPT ![<<d, i>>] = "failed"]
          /\ UNCHANGED <<out_files, out_dirs>>
    /\ UNCHANGED <<config, inputs, semaphore, used_output_paths, state_file,
                   cache, pc, output_dir, file_tasks, attempts, runs, prev>>

\* _write_one for a target language: the slot is taken and translate_text
\* makes its first call.
Acquire(d, i) ==
    /\ pc = "running" /\ AllProcessed
    /\ write_tasks[<<d, i>>] = "waiting"
    /\ ~IsBase(languages[i])
    /\ SlotFree
    /\ semaphore' = semaphore - 1
    /\ write_tasks' = [write_tasks EXCEPT ![<<d, i>>] = "inflight"]
    /\ attempts' = [attempts EXCEPT ![<<d, i>>] = 1]
    /\ UNCHANGED <<config, inputs, used_output_paths, out_files, out_dirs,
                   state_file, cache, pc, output_dir, file_tasks, runs, faulty,
                   prev>>

\* Retry of a decorator without a stop condition.
RetryAlways(n) == TRUE

\* stop_after_attempt: tenacity calls again after a call that raised.
Retry(n) == n < StopAfterAttempt

\* CallFails of a _write_one that releases the slot on success only.
CallFailsKeepingSlot(d, i) ==
    /\ pc = "running"
    /\ write_tasks[<<d, i>>] = "inflight"
    /\ MayFail(<<d, i>>)
    /\ faulty' = faulty \cup {<<d, i>>}
    /\ IF Retry(attempts[<<d, i>>])
       THEN /\ attempts' = [attempts EXCEPT ![<<d, i>>] = @ + 1]
            /\ UNCHANGED write_tasks
       ELSE /\ attempts' = [attempts EXCEPT ![<<d, i>>] = 0]
            /\ write_tasks' = [write_tasks EXCEPT ![<<d, i>>] = "failed"]
    /\ UNCHANGED <<config, inputs, semaphore, used_output_paths, out_files,
                   out_dirs, state_file, cache, pc, output_dir, file_tasks,
                   runs, prev>>

\* The call of translate_text raises: tenacity calls again, or the error
\* leaves _write_one and the slot is released.
CallFails(d, i) ==
    /\ pc = "running"
    /\ write_tasks[<<d, i>>] = "inflight"
    /\ MayFail(<<d, i>>)
    /\ faulty' = faulty \cup {<<d, i>>}
    /\ IF Retry(attempts[<<d, i>>])
       THEN /\ attempts' = [attempts EXCEPT ![<<d, i>>] = @ + 1]
            /\ UNCHANGED <<write_tasks, semaphore>>
       ELSE /\ attempts' = [attempts EXCEPT ![<<d, i>>] = 0]
            /\ write_tasks' = [write_tasks EXCEPT ![<<d, i>>] = "failed"]
            /\ semaphore' = semaphore + 1
    /\ UNCHANGED <<config, inputs, used_output_paths, out_files, out_dirs,
                   state_file, cache, pc, output_dir, file_tasks, runs, prev>>

\* The call of translate_text returns: the artifact is written and the slot
\* released.
CallReturns(d, i) ==
    /\ pc = "running"
    /\ write_tasks[<<d, i>>] = "inflight"
    /\ attempts' = [attempts EXCEPT ![<<d, i>>] = 0]
    /\ semaphore' = semaphore + 1
    /\ \/ /\ out_files' = WriteArtifact(out_files, languages[i], d,
                              Translation(Decode(src[d]), languages[i], client))
          /\ out_dirs' = MakeDirs(out_dirs, languages[i], d)
          /\ write_tasks' = [write_tasks EXCEPT ![<<d, i>>] = "written"]
          /\ UNCHANGED faulty
       \/ \* mkdir raises OSError
          /\ MayFail(<<d, i>>)
          /\ faulty' = faulty \cup {<<d, i>>}
          /\ write_tasks' = [write_tasks EXCEPT ![<<d, i>>] = "failed"]
          /\ UNCHANGED <<out_files, out_dirs>>
    /\ UNCHANGED <<config, inputs, used_output_paths, state_file, cache, pc,
                   output_dir, file_tasks, runs, prev>>

\* Gathered of a translate_directory that awaits the process_file tasks'
\* start only, not their write tasks.
GatheredEarly == AllProcessed

\* Both gathers have every task done and none has raised.
Gathered ==
    /\ AllProcessed
    /\ \A s \in Slots : write_tasks[s] \in {"none", "skipped", "written"}

\* cache.save()
SaveCache ==
    /\ pc = "running"
    /\ Gathered
    /\ state_file' = cache
    /\ pc' = "saved"
    /\ faulty' = {}
    /\ UNCHANGED <<config, inputs, semaphore, used_output_paths, out_files,
                   out_dirs, cache, output_dir, file_tasks, write_tasks,
                   attempts, runs, prev>>

\* RunRaises of a translate_directory that saves the cache on its way out.
RunRaisesAfterSave ==
    /\ pc = "running"
    /\ \E s \in Slots : write_tasks[s] = "failed"
    /\ pc' = "failed"
    /\ state_file' = cache
    /\ write_tasks' = [s \in Slots |-> IF Active(write_tasks[s]) THEN "cancelled"
                                       ELSE write_tasks[s]]
    /\ semaphore' = semaphore + Cardinality({s \in Slots : write_tasks[s] = "inflight"})
    /\ attempts' = NoAttempts
    /\ faulty' = {}
    /\ UNCHANGED <<config, inputs, used_output_paths, out_files, out_dirs,
                   cache, output_dir, file_tasks, runs, prev>>

\* A _write_one task has raised: the gather of its process_file raises, and
\* so does the gather of translate_directory. The tasks that run on do so
\* before this step; when the loop is closed (asyncio.run) those still waiting
\* or in flight are cancelled, and those that held a slot release it.
RunRaises ==
    /\ pc = "running"
    /\ \E s \in Slots : write_tasks[s] = "failed"
    /\ pc' = "failed"
    /\ write_tasks' = [s \in Slots |-> IF Active(write_tasks[s]) THEN "cancelled"
                                       ELSE write_tasks[s]]
    /\ semaphore' = semaphore + Cardinality({s \in Slots : write_tasks[s] = "inflight"})
    /\ attempts' = NoAttempts
    /\ faulty' = {}
    /\ UNCHANGED <<config, inputs, used_output_paths, out_files, out_dirs,
                   state_file, cache, output_dir, file_tasks, runs, prev>>

\* ------------------------------------------------- clean_up_unused_files

\* The string clean_up_unused_files looks up for a file it lists.
ListedPath(form, lang, rel) == AsPosix(OutPath(form, lang, rel))

\* for f in lang_dir.rglob("*.md"): unlink when as_posix() is not a used path
UnlinkUnused(files, used, form, lang) ==
    [k \in Langs \X Docs |->
        IF /\ k[1] = lang
           /\ files[k] # NoFile
           /\ ListedPath(form, lang, k[2]) \notin used
        THEN NoFile ELSE files[k]]

\* not any(d.iterdir()): directory p of lang holds no file and no directory
IsEmptyDir(files, dirs, lang, p) ==
    /\ \A d \in Docs : files[<<lang, d>>] # NoFile => SubSeq(d, 1, Len(d) - 1) # p
    /\ \A q \in AllDirs : (<<lang, q>> \in dirs /\ Len(q) = Len(p) + 1) =>
                             SubSeq(q, 1, Len(p)) # p

\* RemoveEmptyDirs of a loop without reversed(): the directories of depth 1
\* are met first, the deepest last.
RECURSIVE RemoveEmptyDirsTopDown(_, _, _, _)
RemoveEmptyDirsTopDown(files, dirs, lang, n) ==
    IF n = 0 THEN dirs
    ELSE RemoveEmptyDirsTopDown(files,
            dirs \ {<<lang, p>> : p \in {q \in AllDirs :
                        /\ Len(q) = MaxDepth - n + 1
                        /\ <<lang, q>> \in dirs
                        /\ IsEmptyDir(files, dirs, lang, q)}},
            lang, n - 1)

\* for d in reversed(list(lang_dir.rglob("*"))): rglob lists a directory before
\* what it holds, so the directories of depth n are met after all deeper ones.
\* rglob does not list lang_dir itself.
RECURSIVE RemoveEmptyDirs(_, _, _, _)
RemoveEmptyDirs(files, dirs, lang, n) ==
    IF n = 0 THEN dirs
    ELSE RemoveEmptyDirs(files,
            dirs \ {<<lang, p>> : p \in {q \in AllDirs :
                        /\ Len(q) = n
                        /\ <<lang, q>> \in dirs
                        /\ IsEmptyDir(files, dirs, lang, q)}},
            lang, n - 1)

\* The loop of clean_up_unused_files over self.languages from index i on.
RECURSIVE CleanLangs(_, _, _, _, _)
CleanLangs(i, files, dirs, used, form) ==
    IF i > Len(languages) THEN [files |-> files, dirs |-> dirs]
    ELSE LET lang == languages[i]
         IN IF <<lang, <<>>>> \notin dirs
            THEN CleanLangs(i + 1, files, dirs, used, form)
            ELSE LET fs == UnlinkUnused(files, used, form, lang)
                 IN CleanLangs(i + 1, fs,
                               RemoveEmptyDirs(fs, dirs, lang, MaxDepth),
                               used, form)

\* clean_up_unused_files, and translate_directory returns.
CleanUp ==
    /\ pc = "saved"
    /\ LET r == CleanLangs(1, out_files, out_dirs, used_output_paths, output_dir)
       IN /\ out_files' = r.files
          /\ out_dirs' = r.dirs
    /\ pc' = "done"
    /\ UNCHANGED <<config, inputs, semaphore, used_output_paths, state_file,
                   cache, output_dir, file_tasks, write_tasks, attempts, runs,
                   faulty, prev>>

\* ------------------------------------------------------------ specification

Next ==
    \/ \E cl \in Clients, f \in BOOLEAN : NewTranslator(cl, f)
    \/ \E d \in Docs, c \in 1..MaxContent : WriteDocument(d, c)
    \/ \E d \in Docs : DeleteDocument(d)
    \/ \E form \in OutputForms : StartRun(form)
    \/ \E d \in Docs : ProcessFile(d)
    \/ \E s \in Slots : WriteBase(s[1], s[2])
    \/ \E s \in Slots : Acquire(s[1], s[2])
    \/ \E s \in Slots : CallFails(s[1], s[2])
    \/ \E s \in Slots : CallReturns(s[1], s[2])
    \/ SaveCache
    \/ RunRaises
    \/ CleanUp

Spec == Init /\ [][Next]_vars

\* A step of the run in progress: a step of one of its tasks or of
\* translate_directory itself.
RunStep ==
    \/ \E d \in Docs : ProcessFile(d)
    \/ \E s \in Slots : WriteBase(s[1], s[2])
    \/ \E s \in Slots : Acquire(s[1], s[2])
    \/ \E s \in Slots : CallFails(s[1], s[2])
    \/ \E s \in Slots : CallReturns(s[1], s[2])
    \/ SaveCache
    \/ RunRaises
    \/ CleanUp

\* Translator.__init__ with force_translation either way.
InitEitherForce ==
    /\ languages \in LanguageLists
    /\ client = "v1"
    /\ force_translation \in BOOLEAN
    /\ max_concurrency \in 1..MaxConcurrency
    /\ semaphore = max_concurrency
    /\ used_output_paths = {}
    /\ roots \in RootRelations
    /\ src = [d \in Docs |-> 1]
    /\ out_files = [k \in Langs \X Docs |-> NoFile]
    /\ out_dirs = {}
    /\ state_file = EmptyCache
    /\ cache = EmptyCache
    /\ pc = "idle"
    /\ output_dir = "resolved"
    /\ file_tasks = NoFileTasks
    /\ write_tasks = NoTasks
    /\ attempts = NoAttempts
    /\ runs = 0
    /\ faulty = {}
    /\ prev = NoRun

\* The runs of one Translator over a source tree nobody changes.
NextRuns ==
    \/ \E form \in OutputForms : StartRun(form)
    \/ RunStep

\* The event loop runs a task that is ready, and every backend call returns
\* or raises: a run that can take a step takes one. Nothing makes the user
\* start a run.
FairSpec == InitEitherForce /\ [][NextRuns]_vars /\ WF_vars(RunStep)

\* ------------------------------------------------------------------ claims

Present(d) == src[d] # 0

\* The fingerprint of document d and language lang as the source tree is now.
CurrentKey(d, lang) == CalcKey(d, lang, src[d], translation_instruction, model)

\* The position is inside a run, or at the end of one.
InRun == pc \in {"running", "saved", "done", "failed"}

\* The run before this one ended without error and the documents are as they
\* were then (languages, instruction text and model do not change).
AfterGoodRunUnchanged == prev.outcome = "ok" /\ prev.src = src

InFlight == {s \in Slots : write_tasks[s] = "inflight"}

\* C1: translate_directory raises before any I/O when the roots are equal or
\* nested: with overlapping roots no run loads the cache, reads a document or
\* writes a file.
C1_OverlappingRootsRejected ==
    roots # "disjoint" =>
        /\ pc = "idle"
        /\ runs = 0
        /\ file_tasks = NoFileTasks
        /\ \A k \in Langs \X Docs : out_files[k] = NoFile

\* C2: a non-forced run that follows a successful run over unchanged
\* documents creates no write task, so it never calls the backend.
C2_SecondRunNoBackendCall ==
    (InRun /\ AfterGoodRunUnchanged /\ ~force_translation) =>
        \A s \in Slots : write_tasks[s] \in {"none", "skipped"} /\ attempts[s] = 0

\* C2 witness: such a second run has ended, having passed over a target
\* language pair.
C2_Witness ==
    /\ pc = "done" /\ runs = 2
    /\ AfterGoodRunUnchanged /\ ~force_translation
    /\ \E s \in Slots : write_tasks[s] = "skipped" /\ languages[s[2]] # base_language

\* Exactly document m was modified since the successful run before this one.
OnlyModified(m) ==
    /\ prev.outcome = "ok"
    /\ prev.src[m] # 0 /\ src[m] # 0 /\ prev.src[m] # src[m]
    /\ \A d \in Docs \ {m} : prev.src[d] = src[d]

\* C3: in a non-forced run after exactly one document was modified, no step
\* creates a write task for another document, changes an artifact of another
\* document or changes a persisted fingerprint of another document.
C3_OnlyModifiedDocumentTouched ==
    [][\A m \in Docs :
         (pc \in {"running", "saved"} /\ OnlyModified(m) /\ ~force_translation) =>
            \A d \in Docs \ {m} : \A i \in 1..Len(languages) :
                /\ write_tasks'[<<d, i>>] \in {"none", "skipped"}
                /\ out_files'[<<languages[i], d>>] = out_files[<<languages[i], d>>]
                /\ state_file'[<<languages[i], d>>] = state_file[<<languages[i], d>>]
      ]_vars

\* C4: when every task of a forced run is done, every pair of a document and
\* a target language has had its task run and its artifact is what the backend
\* answers now, whatever the cache held.
C4_ForcedRunRewritesEveryTargetPair ==
    (pc = "saved" /\ force_translation) =>
        \A d \in Docs : \A i \in 1..Len(languages) :
            (Present(d) /\ languages[i] # base_language) =>
                /\ write_tasks[<<d, i>>] = "written"
                /\ out_files[<<languages[i], d>>] =
                       Translation(Decode(src[d]), languages[i], client)

\* C4 witness: a forced run with another backend, over documents a successful
\* non-forced run has just translated, has rewritten a target pair.
C4_Witness ==
    /\ pc = "saved" /\ force_translation
    /\ AfterGoodRunUnchanged /\ ~prev.force
    /\ client = "v2"
    /\ \E s \in Slots :
          /\ languages[s[2]] # base_language
          /\ write_tasks[s] = "written"
          /\ state_file[<<languages[s[2]], s[1]>>] = CurrentKey(s[1], languages[s[2]])

\* C5: no step makes a backend call for the base language, and a step in which
\* a base-language task writes its artifact writes the document's content.
C5_BasePassThrough ==
    [][\A s \in Slots :
         /\ attempts'[s] > attempts[s] => languages[s[2]] # base_language
         /\ (/\ write_tasks[s] = "waiting"
             /\ write_tasks'[s] = "written"
             /\ languages[s[2]] = base_language) =>
                out_files'[<<base_language, s[1]>>] = Decode(src[s[1]])
      ]_vars

\* C5 witness: a base-language artifact is written while a target-language
\* call is under way.
C5_Witness ==
    \E s, t \in Slots :
        /\ languages[s[2]] = base_language
        /\ write_tasks[s] = "written"
        /\ out_files[<<base_language, s[1]>>] = Decode(src[s[1]])
        /\ attempts[t] > 0

\* C6: after a successful run that follows the deletion of a document, the
\* document has no artifact under any configured language, no directory below
\* a language directory is empty, and every remaining document has its
\* artifacts.
C6_CleanupAfterDeletion ==
    (pc = "done" /\ prev.outcome = "ok") =>
        \A d \in Docs : (prev.src[d] # 0 /\ src[d] = 0) =>
            /\ \A i \in 1..Len(languages) : out_files[<<languages[i], d>>] = NoFile
            /\ \A i \in 1..Len(languages) : \A p \in AllDirs :
                  (Len(p) > 0 /\ <<languages[i], p>> \in out_dirs) =>
                      ~IsEmptyDir(out_files, out_dirs, languages[i], p)
            /\ \A e \in Docs : \A i \in 1..Len(languages) :
                  (Present(e) /\ prev.src[e] = src[e]) =>
                      out_files[<<languages[i], e>>] # NoFile

\* C7: the tasks between taking a slot and releasing it are never more than
\* max_concurrency, over all documents and languages together.
C7_GlobalConcurrencyBound ==
    /\ Cardinality(InFlight) <= max_concurrency
    /\ semaphore >= 0

\* C7 witness: with one slot, a task of one document holds it while a task of
\* another document waits.
C7_Witness ==
    /\ max_concurrency = 1 /\ semaphore = 0
    /\ \E s, t \in Slots :
          /\ s[1] # t[1]
          /\ write_tasks[s] = "inflight"
          /\ write_tasks[t] = "waiting"

\* C8: after a run that ended without error every document of the source tree
\* has an artifact under every configured language.
C8_OutputComplete ==
    pc = "done" =>
        \A d \in Docs : \A i \in 1..Len(languages) :
            Present(d) => out_files[<<languages[i], d>>] # NoFile

\* C9: once a run has saved the cache, the state file holds the current
\* fingerprint of every document of the source tree under every configured
\* language.
C9_CacheComplete ==
    pc \in {"saved", "done"} =>
        \A d \in Docs : \A i \in 1..Len(languages) :
            Present(d) => state_file[<<languages[i], d>>] = CurrentKey(d, languages[i])

\* C9 witness: a second run has ended in which one pair was passed over and
\* another written again.
C9_Witness ==
    /\ pc = "done" /\ runs = 2
    /\ \E s, t \in Slots : write_tasks[s] = "skipped" /\ write_tasks[t] = "written"

\* The run before this one raised, and the documents are as they were then.
AfterFailedRunUnchanged == prev.outcome = "failed" /\ prev.src = src

\* C10 as claimed: in the non-forced run after a failed run over unchanged
\* documents, each pair whose task raised is passed over.
C10_FailedPairSkippedNextRun ==
    (InRun /\ AfterFailedRunUnchanged /\ ~force_translation) =>
        \A s \in prev.failed :
            file_tasks[s[1]] = "processed" => write_tasks[s] = "skipped"

\* C10 as amended: the failed run saved nothing, so in the non-forced run
\* after a failed non-forced run over unchanged documents each pair whose
\* task raised is not up to date and gets a write task again.
C10_FailedPairScheduledAgain ==
    (InRun /\ AfterFailedRunUnchanged /\ ~prev.force /\ ~force_translation) =>
        \A s \in prev.failed :
            file_tasks[s[1]] = "processed" =>
                write_tasks[s] \in {"waiting", "inflight", "written", "failed",
                                    "cancelled"}

\* C10 witness: in such a run a pair that failed before waits for its slot
\* again and has no artifact.
C10_Witness ==
    /\ pc = "running"
    /\ AfterFailedRunUnchanged /\ ~prev.force /\ ~force_translation
    /\ \E s \in prev.failed :
          /\ write_tasks[s] = "waiting"
          /\ out_files[<<languages[s[2]], s[1]>>] = NoFile

\* The pair of task s is up to date in the state file, which is what the run
\* in progress has loaded.
UpToDateAtLoad(s) ==
    /\ Present(s[1])
    /\ state_file[<<languages[s[2]], s[1]>>] = CurrentKey(s[1], languages[s[2]])

\* C11: while a non-forced run is in progress, no step creates a write task
\* for a pair that was up to date when the cache was loaded, calls the backend
\* for it, writes its artifact or changes its cache entry, in memory or in the
\* state file; process_file passes the pair over.
C11_SkipHasNoEffect ==
    [][\A s \in Slots :
         (pc = "running" /\ ~force_translation /\ UpToDateAtLoad(s)) =>
            LET k == <<languages[s[2]], s[1]>>
            IN /\ write_tasks'[s] \in {"none", "skipped"}
               /\ file_tasks'[s[1]] = "processed" => write_tasks'[s] = "skipped"
               /\ attempts'[s] = 0
               /\ out_files'[k] = out_files[k]
               /\ cache'[k] = cache[k]
               /\ state_file'[k] = state_file[k]
      ]_vars

\* C11 witness: a pair is passed over in a run that has written the artifact
\* of another document.
C11_Witness ==
    /\ pc = "running" /\ ~force_translation
    /\ \E s, t \in Slots :
          /\ UpToDateAtLoad(s)
          /\ write_tasks[s] = "skipped"
          /\ s[1] # t[1]
          /\ write_tasks[t] = "written"

\* C12: the cleanup pass leaves the artifact of every document of the source
\* tree under every configured language in place, whatever the form of the
\* output root.
C12_CleanupKeepsLiveArtifacts ==
    [][\A d \in Docs : \A i \in 1..Len(languages) :
         (pc = "saved" /\ Present(d) /\ out_files[<<languages[i], d>>] # NoFile) =>
            out_files'[<<languages[i], d>>] # NoFile
      ]_vars

\* C13: when the cleanup pass starts, used_output_paths holds the paths of the
\* source tree of this run under the configured languages, and no other.
C13_LivePathSetRunScoped ==
    pc = "saved" =>
        used_output_paths =
            {UsedPath(output_dir, languages[s[2]], s[1]) :
                s \in {t \in Slots : Present(t[1])}}

\* A _write_one task was created for s in the run in progress.
HasTask(s) ==
    write_tasks[s] \in {"waiting", "inflight", "written", "failed", "cancelled"}

\* C14: a run loads the cache before any document is processed; the state
\* file is written only by the one step that takes the run from running to
\* saved, when every process_file task has run and every write task has
\* written; it is not written while a write task waits or is in flight; and
\* the output tree loses files or directories only in the cleanup step, which
\* follows the save.
C14_RunOrderingSinglePersist ==
    [][/\ (pc # "running" /\ pc' = "running") =>
             /\ cache' = state_file
             /\ \A d \in Docs : file_tasks'[d] # "processed"
             /\ \A s \in Slots : write_tasks'[s] = "none"
       /\ (pc # "saved" /\ pc' = "saved") =>
             /\ pc = "running"
             /\ \A d \in Docs : file_tasks[d] # "created"
             /\ \A s \in Slots : write_tasks[s] \in {"none", "skipped", "written"}
             /\ state_file' = cache
       /\ state_file' # state_file => (pc = "running" /\ pc' = "saved")
       /\ (\E s \in Slots : write_tasks[s] \in {"waiting", "inflight"}) =>
             state_file' = state_file
       /\ (pc # "done" /\ pc' = "done") => pc = "saved"
       /\ (\/ \E k \in Langs \X Docs : out_files[k] # NoFile /\ out_files'[k] = NoFile
           \/ out_dirs \ out_dirs' # {}) =>
             (pc = "saved" /\ pc' = "done")
      ]_vars

\* C14 witness: the cache has been saved after the write tasks of two
\* documents have written, and cleanup has not started.
C14_Witness ==
    /\ pc = "saved"
    /\ state_file = cache /\ state_file # EmptyCache
    /\ \E s, t \in Slots :
          s[1] # t[1] /\ write_tasks[s] = "written" /\ write_tasks[t] = "written"

\* C15: the in-memory cache entry of a pair holds the new fingerprint from the
\* moment the pair's write task exists, so already while the task waits for a
\* slot.
C15_MarkedAtScheduling ==
    \A s \in Slots :
        HasTask(s) =>
            cache[<<languages[s[2]], s[1]>>] = CurrentKey(s[1], languages[s[2]])

\* C15 witness: a pair is marked current while its task still waits for a
\* slot and its artifact is that of the document's earlier content.
C15_Witness ==
    \E s \in Slots :
        LET k == <<languages[s[2]], s[1]>>
        IN /\ write_tasks[s] = "waiting"
           /\ cache[k] = CurrentKey(s[1], languages[s[2]])
           /\ out_files[k] # NoFile
           /\ out_files[k].body # src[s[1]]

\* C16: the free slots and the tasks in flight add up to max_concurrency in
\* every state: a task that ends, written or failed, has given its slot back,
\* and with no task in flight every slot is free.
C16_SlotsReleased ==
    semaphore + Cardinality(InFlight) = max_concurrency

\* C16 witness: with one slot, a target-language task has failed and another
\* task has taken the slot after it.
C16_Witness ==
    /\ max_concurrency = 1
    /\ \E s, t \in Slots :
          /\ languages[s[2]] # base_language
          /\ write_tasks[s] = "failed"
          /\ write_tasks[t] = "inflight"

\* C17: no step takes the backend calls of a task beyond StopAfterAttempt; the
\* step in which a task in flight fails writes no artifact; and a run with a
\* failed task is never saved and never returns.
C17_BoundedRetry ==
    [][\A s \in Slots :
         /\ attempts'[s] <= StopAfterAttempt
         /\ (write_tasks[s] = "inflight" /\ write_tasks'[s] = "failed") =>
               (out_files' = out_files /\ out_dirs' = out_dirs)
         /\ (write_tasks[s] = "inflight" /\ attempts[s] = StopAfterAttempt) =>
               write_tasks'[s] # "inflight" \/ attempts'[s] = attempts[s]
         /\ write_tasks'[s] = "failed" => pc' \in {"running", "failed"}
      ]_vars

\* C17 witness: the last attempt the decorator allows is under way for a task
\* whose artifact does not exist.
C17_Witness ==
    \E s \in Slots :
        /\ write_tasks[s] = "inflight"
        /\ attempts[s] = StopAfterAttempt
        /\ out_files[<<languages[s[2]], s[1]>>] = NoFile

\* C18: no two write tasks of a run have the same artifact.
C18_SingleWriterPerArtifact ==
    \A s, t \in Slots :
        (s # t /\ s[1] = t[1] /\ languages[s[2]] = languages[t[2]]) =>
            ~(HasTask(s) /\ HasTask(t))

\* The output tree after clean_up_unused_files(output_dir), called in the
\* state as it is with an output root of the given form.
Cleaned(form) == CleanLangs(1, out_files, out_dirs, used_output_paths, form)

\* Directory p of language lang is in tree r and holds nothing.
EmptyIn(r, lang, p) == <<lang, p>> \in r.dirs /\ IsEmptyDir(r.files, r.dirs, lang, p)

C19_EveryTaskWrittenOrFailed ==
    /\ \A s \in Slots :
          (write_tasks[s] \in {"waiting", "inflight"}) ~>
              (write_tasks[s] \in {"written", "failed"})
    /\ (pc = "running") ~> (pc \in {"done", "failed"})

\* C19 as amended: every run in progress returns or raises, and every write
\* task that waits or is in flight ends: written, failed, or cancelled with
\* the run that has raised.
C19_RunTerminates ==
    /\ \A s \in Slots :
          (write_tasks[s] \in {"waiting", "inflight"}) ~>
              (write_tasks[s] \in {"written", "failed", "cancelled"})
    /\ (pc = "running") ~> (pc \in {"done", "failed"})

\* C19 witness: a run has raised while a task still waited for a slot; the
\* task has ended without having written or failed.
C19_Witness ==
    /\ pc = "failed"
    /\ \E s, t \in Slots :
          /\ write_tasks[s] = "failed"
          /\ write_tasks[t] = "cancelled"
          /\ out_files[<<languages[t[2]], t[1]>>] = NoFile

\* C21: a run in progress changes the state file only by the step that saves,
\* which a run with a failed task never takes; the step in which the run
\* raises changes neither the state file nor the output tree; a run with a
\* failed task reaches neither the save nor the cleanup; and when a non-forced
\* run has raised, the state file holds the mark of none of its tasks.
C21_FailedRunNeitherSavesNorCleans ==
    [][/\ (pc = "running" /\ pc' # "saved") => state_file' = state_file
       /\ (pc # "failed" /\ pc' = "failed") =>
             /\ pc = "running"
             /\ state_file' = state_file
             /\ out_files' = out_files
             /\ out_dirs' = out_dirs
       /\ (\E s \in Slots : write_tasks[s] = "failed") =>
             /\ pc' \notin {"saved", "done"}
             /\ state_file' = state_file
             /\ \A k \in Langs \X Docs : out_files[k] # NoFile => out_files'[k] # NoFile
             /\ out_dirs \subseteq out_dirs'
       /\ (pc = "failed" /\ ~force_translation) =>
             \A s \in Slots :
                 HasTask(s) =>
                     state_file[<<languages[s[2]], s[1]>>] #
                         CurrentKey(s[1], languages[s[2]])
      ]_vars

\* C21 witness: a run has raised; the pair of its failed task is marked in
\* memory and not in the state file, and the artifact of a document that is
\* no longer in the source tree is still in the output tree.
C21_Witness ==
    /\ pc = "failed"
    /\ \E s \in Slots :
          /\ write_tasks[s] = "failed"
          /\ cache[<<languages[s[2]], s[1]>>] = CurrentKey(s[1], languages[s[2]])
          /\ state_file[<<languages[s[2]], s[1]>>] # CurrentKey(s[1], languages[s[2]])
    /\ \E d \in Docs : \E i \in 1..Len(languages) :
          src[d] = 0 /\ out_files[<<languages[i], d>>] # NoFile

=============================================================================
